---- MODULE Spec2Model ----
\* Verification model of the finality-aleph session backup manager
\* (party/member.rs) and of the chain-state metrics tracker
\* (metrics/chain_state.rs).
EXTENDS Integers, Sequences, FiniteSets, TLC

\* ------------------------------------------------------------------ bounds

\* Process runs of the session that are explored.
MaxRuns == 3
\* Bytes one run writes to its writer.
MaxWrite == 1
\* External changes to the session directory that are explored.
MaxTamper == 1
\* Blocks imported above genesis while the import side of the metrics tracker is
\* explored, and while the tracker is explored with both streams live.
MaxBlocks == 3
MaxTracked == 2
\* The longest main chain above genesis and the longest two branches of the block
\* trees on which reorg detection is explored.
MaxTrunk == 5
MaxBranchB == 3
MaxBranchC == 2
\* The block hashes on which the chain status is explored.
MaxHash == 3

\* ------------------------------------------------------------- Option, Result

None == [kind |-> "None"]
Some(v) == [kind |-> "Some", value |-> v]

\* ------------------------------------------------- member.rs: the file names

\* member.rs:122; a file name is a sequence of characters, the extension one token.
Ext == ".abfts"
\* A byte that is not valid Unicode (OsString::into_string fails on it).
NonUtf8 == "\\xFF"
Digits == <<"0", "1", "2", "3", "4", "5", "6", "7", "8", "9">>
IsDigit(c) == \E i \in 1..10 : Digits[i] = c
DigitVal(c) == (CHOOSE i \in 1..10 : Digits[i] = c) - 1

\* OsString::into_string (member.rs:127): Some(name) when the name is valid Unicode.
IntoString(name) ==
    IF \E i \in 1..Len(name) : name[i] = NonUtf8 THEN None ELSE Some(name)

\* str::strip_suffix(extension) (member.rs:128).
StripSuffix(s) ==
    IF Len(s) > 0 /\ s[Len(s)] = Ext THEN Some(SubSeq(s, 1, Len(s) - 1)) ELSE None

RECURSIVE DigitsValue(_)
DigitsValue(s) ==
    IF s = <<>> THEN 0
    ELSE 10 * DigitsValue(SubSeq(s, 1, Len(s) - 1)) + DigitVal(s[Len(s)])

\* usize::from_str (member.rs:128): an optional leading "+", then one or more
\* decimal digits; anything else is an error.
UsizeFromStr(s) ==
    LET body == IF Len(s) > 0 /\ s[1] = "+" THEN SubSeq(s, 2, Len(s)) ELSE s
    IN  IF body = <<>> \/ \E i \in 1..Len(body) : ~IsDigit(body[i])
        THEN None
        ELSE Some(DigitsValue(body))

\* format!("{}", index) (member.rs:137, 141): decimal, no sign, no leading zero.
RECURSIVE FormatUsize(_)
FormatUsize(n) ==
    IF n < 10 THEN <<Digits[n + 1]>>
    ELSE FormatUsize(n \div 10) \o <<Digits[(n % 10) + 1]>>

\* format!("{}{}", index, extension) (member.rs:137, 141-145).
ShardName(index) == FormatUsize(index) \o <<Ext>>

\* The filter_map chain of member.rs:127-128 on one directory entry's name.
ParseEntry(name) ==
    LET s == IntoString(name)
    IN  IF s.kind = "None" THEN None
        ELSE LET stem == StripSuffix(s.value)
             IN  IF stem.kind = "None" THEN None ELSE UsizeFromStr(stem.value)

\* ------------------------------------------------------------------ state

VARIABLES
    \* the session directory on disk
    dirExists,      \* whether backup_path/<session_id>/ exists
    files,          \* file name -> content (a sequence of bytes)
    \* the member task (member.rs:42-66)
    pc,             \* "down", "loading", "session", "stopped", "returned"
    backupPath,     \* backup_saving_path: Some(path) is TRUE, None is FALSE
    saver,          \* the writer handed to LocalIO
    loader,         \* the bytes of the reader handed to LocalIO
    openResult,     \* what rotate_saved_backup_files returned in this run
    ops,            \* the filesystem calls of this run, in order
    \* history
    runs,           \* process runs started so far
    written,        \* bytes accepted by file writers so far, in order
    discarded,      \* bytes accepted by sink writers so far
    prior,          \* `written` as it was when this run opened its backup
    filesAtOpen,    \* `files` as it was when this run opened its backup
    fsErr,          \* whether a filesystem call of this run's open failed
    found,          \* session_backups as this run's open computed it, if it did
    sessionStarted, \* whether this run has called run_session
    tamperCount     \* external changes so far

VARIABLES
    \* the chain backend (HeaderMetadata) and the headers handed to detect_reorgs
    headers,        \* every header built so far
    backend,        \* the headers the backend still resolves
    drCalled,       \* whether detect_reorgs has been called
    drPrev,         \* its prev_best argument
    drBest,         \* its best argument
    drResult        \* what it returned

VARIABLES
    \* the node, as the metrics tracker sees it
    finalized,      \* the header the backend has finalized last
    importQ,        \* import notifications sent and not yet taken by the tracker
    finalQ,         \* finality notifications sent and not yet taken by the tracker
    importOpen,     \* whether the import notification sink is open
    finalOpen,      \* whether the finality notification sink is open
    \* run_chain_state_metrics (chain_state.rs:144-211)
    tpc,            \* "running" inside the loop, "ended" after a break
    previous_best,  \* chain_state.rs:155
    own_imported_by_level,  \* chain_state.rs:156: number -> hashes, in push order
    metrics,        \* ChainStateMetrics: its kind and the values it registered
    arrival,        \* the stream ("import" or "finality") of every notification not
                    \* yet taken, in the order the notifications were sent
    notified        \* every notification sent so far, by stream

VARIABLES
    \* the substrate client behind SubstrateChainStatus (chain_status.rs:63-71)
    client,         \* what the backend stores: headers, justifications, children, info
    call            \* the last query of the chain status since the backend changed

backupVars == <<dirExists, files, pc, backupPath, saver, loader, openResult, ops,
                runs, written, discarded, prior, filesAtOpen, fsErr, found,
                sessionStarted, tamperCount>>

reorgVars == <<headers, backend, drCalled, drPrev, drBest, drResult>>

trackerVars == <<finalized, importQ, finalQ, importOpen, finalOpen, tpc,
                 previous_best, own_imported_by_level, metrics, arrival, notified>>

statusVars == <<client, call>>

vars == <<backupVars, reorgVars, trackerVars, statusVars>>

\* The k-th byte a run writes: every byte of the log is told apart from the others,
\* so that a lost, repeated or misplaced byte shows.
ByteOf(run, k) == <<run, k>>

NoFiles == [n \in {} |-> <<>>]
NoSaver == [kind |-> "NoSaver"]
Sink == [kind |-> "Sink"]
FileSaver(name) == [kind |-> "File", name |-> name]
NotCalled == [kind |-> "NotCalled"]
Ok == [kind |-> "Ok"]
IOError == [kind |-> "IOError"]
BackupIncomplete(backups) == [kind |-> "BackupIncomplete", backups |-> backups]

\* ------------------------------------- member.rs: rotate_saved_backup_files

OpRec(op, name) == [op |-> op, name |-> name]

\* fs::read_dir(..).filter_map(|r| r.ok()) (member.rs:125-126): the entries whose
\* io::Result is an Err are discarded; `dropped` is the set of those entries.
ListedNames(fls, dropped) == DOMAIN fls \ dropped

\* member.rs:127-129: the names that yield an index.
ParsedNames(names) == {n \in names : ParseEntry(n).kind = "Some"}

\* collect() and sort_unstable() (member.rs:129-130): ascending, duplicates kept.
RECURSIVE SortedIndices(_)
SortedIndices(names) ==
    IF names = {} THEN <<>>
    ELSE LET m == CHOOSE n \in names :
                      \A k \in names : ParseEntry(n).value <= ParseEntry(k).value
         IN  <<ParseEntry(m).value>> \o SortedIndices(names \ {m})

SessionBackups(fls, dropped) == SortedIndices(ParsedNames(ListedNames(fls, dropped)))

\* A completeness test that only asks for consecutive indices, whatever the first.
IsCompleteAnyStart(backups) == \A i \in 2..Len(backups) : backups[i] = backups[i - 1] + 1

\* session_backups.iter().cloned().eq(0..session_backups.len()) (member.rs:131).
IsComplete(backups) == \A i \in 1..Len(backups) : backups[i] = i - 1

\* The loop of member.rs:136-139 from position k: File::open fails when the file is
\* missing; `readFail` is the position at which the filesystem fails a read (0: none).
RECURSIVE ReadShards(_, _, _, _)
ReadShards(fls, backups, k, readFail) ==
    IF k > Len(backups) THEN [ok |-> TRUE, buffer |-> <<>>, ops |-> <<>>]
    ELSE LET name == ShardName(backups[k])
         IN  IF name \notin DOMAIN fls \/ readFail = k
             THEN [ok |-> FALSE, buffer |-> <<>>, ops |-> <<OpRec("read", name)>>]
             ELSE LET rest == ReadShards(fls, backups, k + 1, readFail)
                  IN  [ok |-> rest.ok,
                       buffer |-> fls[name] \o rest.buffer,
                       ops |-> <<OpRec("read", name)>> \o rest.ops]

\* session_backups.last().map_or(0, |i| i + 1) (member.rs:143).
NextIndex(backups) == IF backups = <<>> THEN 0 ELSE backups[Len(backups)] + 1

\* File::create (member.rs:141): creates the file, truncating it when it exists.
FileCreate(fls, name) ==
    [n \in DOMAIN fls \cup {name} |-> IF n = name THEN <<>> ELSE fls[n]]

\* What the filesystem may do to one call of rotate_saved_backup_files: fail the
\* call named by `at` ("none": no call fails; "read": the readFail-th read fails),
\* and, once the directory is listed, fail the entries in `dropped`.
Fault(at, dropped, readFail) == [at |-> at, dropped |-> dropped, readFail |-> readFail]
Faults(fls) ==
    {Fault(at, {}, 0) : at \in {"create_dir_all", "read_dir"}}
    \cup {Fault(at, d, 0) : at \in {"none", "create"}, d \in SUBSET DOMAIN fls}
    \cup UNION {{Fault("read", d, k) : k \in 1..Cardinality(DOMAIN fls \ d)} :
                 d \in SUBSET DOMAIN fls}

Outcome(res, dirE, fls, sv, ld, o, err, fnd) ==
    [result |-> res, dirExists |-> dirE, files |-> fls, saver |-> sv, loader |-> ld,
     ops |-> o, fsErr |-> err, found |-> fnd]

\* rotate_saved_backup_files creating the next shard before it reports the gap.
RotateCreatingBeforeCheck(dirE, fls, fault) ==
    LET mk == <<OpRec("create_dir_all", <<>>)>>
        ls == mk \o <<OpRec("read_dir", <<>>)>>
        backups == SessionBackups(fls, fault.dropped)
        read == ReadShards(fls, backups, 1, fault.readFail)
        shard == ShardName(NextIndex(backups))
        dropErr == fault.dropped # {}
    IN  IF fault.at = "create_dir_all"
        THEN Outcome(IOError, dirE, fls, NoSaver, <<>>, mk, TRUE, None)
        ELSE IF fault.at = "read_dir"
        THEN Outcome(IOError, TRUE, fls, NoSaver, <<>>, ls, TRUE, None)
        ELSE IF ~IsComplete(backups)
        THEN Outcome(BackupIncomplete(backups), TRUE, FileCreate(fls, shard), NoSaver,
                     <<>>, ls, dropErr, Some(backups))
        ELSE IF ~read.ok
        THEN Outcome(IOError, TRUE, fls, NoSaver, <<>>, ls \o read.ops, TRUE,
                     Some(backups))
        ELSE IF fault.at = "create"
        THEN Outcome(IOError, TRUE, fls, NoSaver, <<>>,
                     ls \o read.ops \o <<OpRec("create", shard)>>, TRUE, Some(backups))
        ELSE Outcome(Ok, TRUE, FileCreate(fls, shard), FileSaver(shard), read.buffer,
                     ls \o read.ops \o <<OpRec("create", shard)>>, dropErr, Some(backups))

\* member.rs:118-147.
RotateSavedBackupFiles(dirE, fls, fault) ==
    LET mk == <<OpRec("create_dir_all", <<>>)>>
        ls == mk \o <<OpRec("read_dir", <<>>)>>
        backups == SessionBackups(fls, fault.dropped)
        read == ReadShards(fls, backups, 1, fault.readFail)
        shard == ShardName(NextIndex(backups))
        dropErr == fault.dropped # {}
    IN  IF fault.at = "create_dir_all"
        THEN Outcome(IOError, dirE, fls, NoSaver, <<>>, mk, TRUE, None)
        ELSE IF fault.at = "read_dir"
        THEN Outcome(IOError, TRUE, fls, NoSaver, <<>>, ls, TRUE, None)
        ELSE IF ~IsComplete(backups)
        THEN Outcome(BackupIncomplete(backups), TRUE, fls, NoSaver, <<>>, ls, dropErr,
                     Some(backups))
        ELSE IF ~read.ok
        THEN Outcome(IOError, TRUE, fls, NoSaver, <<>>, ls \o read.ops, TRUE,
                     Some(backups))
        ELSE IF fault.at = "create"
        THEN Outcome(IOError, TRUE, fls, NoSaver, <<>>,
                     ls \o read.ops \o <<OpRec("create", shard)>>, TRUE, Some(backups))
        ELSE Outcome(Ok, TRUE, FileCreate(fls, shard), FileSaver(shard), read.buffer,
                     ls \o read.ops \o <<OpRec("create", shard)>>, dropErr, Some(backups))

\* ------------------------------------------------------- member.rs: task

\* A task that sets up the backup whether or not a path was given.
UsesBackupAlways(path) == TRUE

\* if let Some(stash_path) = backup_saving_path.as_deref() (member.rs:45).
UsesBackup(path) == path

\* A task that goes on to run_session whatever the open returned.
AfterOpenAlways(res) == "session"

\* member.rs:46-56: an Err returns from the task, an Ok goes on to run_session.
AfterOpen(res) == IF res.kind = "Ok" THEN "session" ELSE "returned"

\* The process starts the member task of the session (member.rs:22-43).
StartTask(path) ==
    /\ pc = "down"
    /\ runs < MaxRuns
    /\ pc' = "loading"
    /\ backupPath' = path
    /\ runs' = runs + 1
    /\ saver' = NoSaver
    /\ loader' = <<>>
    /\ openResult' = NotCalled
    /\ ops' = <<>>
    /\ fsErr' = FALSE
    /\ found' = None
    /\ sessionStarted' = FALSE
    /\ discarded' = 0
    /\ prior' = written
    /\ filesAtOpen' = files
    /\ UNCHANGED <<dirExists, files, written, tamperCount>>
    /\ UNCHANGED <<reorgVars, trackerVars, statusVars>>

\* member.rs:44-57 with a backup path: rotate_saved_backup_files, then either the
\* early return (member.rs:53) or LocalIO::new and run_session (member.rs:61-63).
OpenBackup ==
    /\ pc = "loading"
    /\ UsesBackup(backupPath)
    /\ \E fault \in Faults(files) :
         LET out == RotateSavedBackupFiles(dirExists, files, fault)
         IN  /\ openResult' = out.result
             /\ dirExists' = out.dirExists
             /\ files' = out.files
             /\ saver' = out.saver
             /\ loader' = out.loader
             /\ ops' = out.ops
             /\ fsErr' = out.fsErr
             /\ found' = out.found
             /\ pc' = AfterOpen(out.result)
             /\ sessionStarted' = (AfterOpen(out.result) = "session")
    /\ UNCHANGED <<backupPath, runs, written, discarded, prior, filesAtOpen, tamperCount>>
    /\ UNCHANGED <<reorgVars, trackerVars, statusVars>>

\* member.rs:58-60 without a backup path: io::sink() and io::empty().
NoBackup ==
    /\ pc = "loading"
    /\ ~UsesBackup(backupPath)
    /\ saver' = Sink
    /\ loader' = <<>>
    /\ pc' = "session"
    /\ sessionStarted' = TRUE
    /\ UNCHANGED <<dirExists, files, backupPath, openResult, ops, runs, written,
                   discarded, prior, filesAtOpen, fsErr, found, tamperCount>>
    /\ UNCHANGED <<reorgVars, trackerVars, statusVars>>

\* The session runner writes one byte to its writer: a File appends it to the shard
\* it created, io::sink() accepts and drops it.
Write ==
    /\ pc = "session"
    /\ IF saver.kind = "File"
       THEN /\ Len(files[saver.name]) < MaxWrite
            /\ LET b == ByteOf(runs, Len(files[saver.name]) + 1)
               IN  /\ files' = [files EXCEPT ![saver.name] = Append(@, b)]
                   /\ written' = Append(written, b)
            /\ UNCHANGED discarded
       ELSE /\ discarded < MaxWrite
            /\ discarded' = discarded + 1
            /\ UNCHANGED <<files, written>>
    /\ UNCHANGED <<dirExists, pc, backupPath, saver, loader, openResult, ops, runs,
                   prior, filesAtOpen, fsErr, found, sessionStarted, tamperCount>>
    /\ UNCHANGED <<reorgVars, trackerVars, statusVars>>

\* The stop signal: run_session returns and the task ends (member.rs:63-65).
Cancel ==
    /\ pc = "session"
    /\ pc' = "stopped"
    /\ UNCHANGED <<dirExists, files, backupPath, saver, loader, openResult, ops, runs,
                   written, discarded, prior, filesAtOpen, fsErr, found,
                   sessionStarted, tamperCount>>
    /\ UNCHANGED <<reorgVars, trackerVars, statusVars>>

\* The process dies, at any point of the task: what the run held in memory is gone,
\* what it wrote to the files stays.
Crash ==
    /\ pc # "down"
    /\ pc' = "down"
    /\ backupPath' = FALSE
    /\ saver' = NoSaver
    /\ loader' = <<>>
    /\ openResult' = NotCalled
    /\ ops' = <<>>
    /\ fsErr' = FALSE
    /\ found' = None
    /\ sessionStarted' = FALSE
    /\ discarded' = 0
    /\ prior' = <<>>
    /\ filesAtOpen' = NoFiles
    /\ UNCHANGED <<dirExists, files, runs, written, tamperCount>>
    /\ UNCHANGED <<reorgVars, trackerVars, statusVars>>

\* Names an external actor may give a file of the session directory.
TamperNames ==
    {ShardName(2), <<"+", "0", Ext>>, <<"1", Ext, "~">>, <<NonUtf8, Ext>>}

\* Something else than this program adds a file while no run is in progress.
TamperAdd(name) ==
    /\ pc = "down"
    /\ tamperCount < MaxTamper
    /\ name \notin DOMAIN files
    /\ tamperCount' = tamperCount + 1
    /\ dirExists' = TRUE
    /\ files' = [n \in DOMAIN files \cup {name} |-> IF n = name THEN <<>> ELSE files[n]]
    /\ UNCHANGED <<pc, backupPath, saver, loader, openResult, ops, runs, written,
                   discarded, prior, filesAtOpen, fsErr, found, sessionStarted>>
    /\ UNCHANGED <<reorgVars, trackerVars, statusVars>>

\* Something else than this program removes a file while no run is in progress.
TamperRemove(name) ==
    /\ pc = "down"
    /\ tamperCount < MaxTamper
    /\ name \in DOMAIN files
    /\ tamperCount' = tamperCount + 1
    /\ files' = [n \in DOMAIN files \ {name} |-> files[n]]
    /\ UNCHANGED <<dirExists, pc, backupPath, saver, loader, openResult, ops, runs,
                   written, discarded, prior, filesAtOpen, fsErr, found, sessionStarted>>
    /\ UNCHANGED <<reorgVars, trackerVars, statusVars>>

\* Nothing of the chain takes part in the session backup.
NoChain ==
    /\ headers = {}
    /\ backend = {}
    /\ drCalled = FALSE
    /\ drPrev = None
    /\ drBest = None
    /\ drResult = None

BackupInit ==
    /\ dirExists = FALSE
    /\ files = NoFiles
    /\ pc = "down"
    /\ backupPath = FALSE
    /\ saver = NoSaver
    /\ loader = <<>>
    /\ openResult = NotCalled
    /\ ops = <<>>
    /\ runs = 0
    /\ written = <<>>
    /\ discarded = 0
    /\ prior = <<>>
    /\ filesAtOpen = NoFiles
    /\ fsErr = FALSE
    /\ found = None
    /\ sessionStarted = FALSE
    /\ tamperCount = 0

\* ChainStateMetrics as new(None) or noop() builds it, and as new(Some(registry))
\* registers it: counters and gauges at zero, no reorg observed.
\* A MockChainStateMeasure (chain_state.rs:20) registers nothing and keeps the calls
\* made on it.
NewMetrics(kind) ==
    [kind |-> kind, own_finalized_blocks |-> 0, own_hopeless_blocks |-> 0,
     top_finalized_block |-> 0, best_block |-> 0, reorgs |-> <<>>, calls |-> <<>>]

\* A call on the mock: the method and its argument.
Call(method, arg) == <<method, arg>>
MockCalled(m, method, arg) == [m EXCEPT !.calls = Append(@, Call(method, arg))]

NoLevels == [n \in {} |-> <<>>]

NoneNotified == [imports |-> {}, finality |-> {}]

\* No metrics tracker runs.
NoTracker ==
    /\ finalized = None
    /\ importQ = <<>>
    /\ finalQ = <<>>
    /\ importOpen = FALSE
    /\ finalOpen = FALSE
    /\ tpc = "ended"
    /\ previous_best = None
    /\ own_imported_by_level = NoLevels
    /\ metrics = NewMetrics("Noop")
    /\ arrival = <<>>
    /\ notified = NoneNotified

\* No chain status is built in the specifications of the other components.
NoStatus ==
    /\ client = None
    /\ call = None

Init == BackupInit /\ NoChain /\ NoTracker /\ NoStatus

Next ==
    \/ \E path \in BOOLEAN : StartTask(path)
    \/ OpenBackup
    \/ NoBackup
    \/ Write
    \/ Cancel
    \/ Crash
    \/ \E name \in TamperNames : TamperAdd(name)
    \/ \E name \in DOMAIN files : TamperRemove(name)

Spec == Init /\ [][Next]_vars

\* ------------------------------------------------------- the chain backend

OkWith(v) == [kind |-> "Ok", value |-> v]
Err == [kind |-> "Err"]

Header(hash, parent_hash, number) ==
    [hash |-> hash, parent_hash |-> parent_hash, number |-> number]

\* The genesis header; its parent hash is the zero hash, which no block has.
Genesis == Header(1, 0, 0)

Range(seq) == {seq[i] : i \in 1..Len(seq)}

\* build_and_import_branch_above(parent, len) (chain_state.rs:304-312): len new
\* headers, each the child of the one before it, the first a child of `parent`.
BranchAbove(parent, len, firstHash) ==
    [i \in 1..len |->
        Header(firstHash + i - 1,
               IF i = 1 THEN parent.hash ELSE firstHash + i - 2,
               parent.number + i)]

\* The headers of tree t from h down to the root, h included.
RECURSIVE ChainTo(_, _)
ChainTo(t, h) ==
    IF \E p \in t : p.hash = h.parent_hash
    THEN {h} \cup ChainTo(t, CHOOSE p \in t : p.hash = h.parent_hash)
    ELSE {h}

\* HeaderMetadata::header_metadata: the backend's header for a hash, if it has one.
HeaderMetadataOf(be, hash) ==
    IF \E h \in be : h.hash = hash
    THEN OkWith(CHOOSE h \in be : h.hash = hash)
    ELSE Err

\* sp_blockchain::lowest_common_ancestor (chain_state.rs:223): the higher header
\* walks to its parent until both have one number, then both walk until they are
\* the same header; a header the backend cannot resolve is an error.
RECURSIVE WalkToCommon(_, _, _)
WalkToCommon(be, one, two) ==
    IF one.number > two.number
    THEN LET p == HeaderMetadataOf(be, one.parent_hash)
         IN  IF p.kind = "Err" THEN Err ELSE WalkToCommon(be, p.value, two)
    ELSE IF one.number < two.number
    THEN LET p == HeaderMetadataOf(be, two.parent_hash)
         IN  IF p.kind = "Err" THEN Err ELSE WalkToCommon(be, one, p.value)
    ELSE IF one.hash # two.hash
    THEN LET p == HeaderMetadataOf(be, one.parent_hash)
             q == HeaderMetadataOf(be, two.parent_hash)
         IN  IF p.kind = "Err" \/ q.kind = "Err" THEN Err
             ELSE WalkToCommon(be, p.value, q.value)
    ELSE OkWith([hash |-> one.hash, number |-> one.number])

LowestCommonAncestor(be, id_one, id_two) ==
    LET one == HeaderMetadataOf(be, id_one)
        two == HeaderMetadataOf(be, id_two)
    IN  IF one.kind = "Err" \/ two.kind = "Err" THEN Err
        ELSE WalkToCommon(be, one.value, two.value)

\* ------------------------------------------- chain_state.rs: detect_reorgs

\* u32::saturating_sub (chain_state.rs:226).
SaturatingSub(a, b) == IF a > b THEN a - b ELSE 0

\* A detection that reports the computed length even when it is zero.
DetectReorgsNoZeroGuard(be, prev_best, best) ==
    IF prev_best.kind = "None" THEN None
    ELSE LET prev == prev_best.value
         IN  IF best.hash = prev.hash \/ best.parent_hash = prev.hash THEN None
             ELSE LET lca == LowestCommonAncestor(be, best.hash, prev.hash)
                  IN  IF lca.kind = "Err" THEN None
                      ELSE Some(SaturatingSub(prev.number, lca.value.number))

\* A detection that reports the previous best's number, the ancestor's not taken off.
DetectReorgsAbsolute(be, prev_best, best) ==
    IF prev_best.kind = "None" THEN None
    ELSE LET prev == prev_best.value
         IN  IF best.hash = prev.hash \/ best.parent_hash = prev.hash THEN None
             ELSE LET lca == LowestCommonAncestor(be, best.hash, prev.hash)
                  IN  IF lca.kind = "Err" THEN None
                      ELSE IF prev.number = 0 THEN None ELSE Some(prev.number)

\* A detection that measures from the new best instead of the previous best.
DetectReorgsFromBest(be, prev_best, best) ==
    IF prev_best.kind = "None" THEN None
    ELSE LET prev == prev_best.value
         IN  IF best.hash = prev.hash \/ best.parent_hash = prev.hash THEN None
             ELSE LET lca == LowestCommonAncestor(be, best.hash, prev.hash)
                  IN  IF lca.kind = "Err" THEN None
                      ELSE LET len == SaturatingSub(best.number, lca.value.number)
                           IN  IF len = 0 THEN None ELSE Some(len)

\* A detection that reports a failed ancestor lookup as a reorg of depth 1.
DetectReorgsFailureCounted(be, prev_best, best) ==
    IF prev_best.kind = "None" THEN None
    ELSE LET prev == prev_best.value
         IN  IF best.hash = prev.hash \/ best.parent_hash = prev.hash THEN None
             ELSE LET lca == LowestCommonAncestor(be, best.hash, prev.hash)
                  IN  IF lca.kind = "Err" THEN Some(1)
                      ELSE LET len == SaturatingSub(prev.number, lca.value.number)
                           IN  IF len = 0 THEN None ELSE Some(len)

\* chain_state.rs:213-232.
DetectReorgs(be, prev_best, best) ==
    IF prev_best.kind = "None" THEN None
    ELSE LET prev == prev_best.value
         IN  IF best.hash = prev.hash \/ best.parent_hash = prev.hash THEN None
             ELSE LET lca == LowestCommonAncestor(be, best.hash, prev.hash)
                  IN  IF lca.kind = "Err" THEN None
                      ELSE LET len == SaturatingSub(prev.number, lca.value.number)
                           IN  IF len = 0 THEN None ELSE Some(len)

\* ------------------------------------------ detect_reorgs on built chains

\* The chains of chain_state.rs:304-312 in every size up to the bounds: a main
\* chain above genesis, then a branch above any block, then another branch above
\* any block. Hashes are given in the order the blocks are built.
Trunks == {{Genesis} \cup Range(BranchAbove(Genesis, a, 2)) : a \in 1..MaxTrunk}
Grow(trees, maxLen) ==
    UNION {{t \cup Range(BranchAbove(p, len, Cardinality(t) + 1)) :
                p \in t, len \in 0..maxLen} : t \in trees}
Trees == Grow(Grow(Trunks, MaxBranchB), MaxBranchC)

\* The chain of test_reorg_detection (chain_state.rs:304-318):
\*                  - C0 - C1
\*                /
\* G - A0 - A1 - A2 - A3 - A4
\*      \
\*        - B0 - B1 - B2
FixtureA == BranchAbove(Genesis, 5, 2)
FixtureB == BranchAbove(FixtureA[1], 3, 7)
FixtureC == BranchAbove(FixtureA[3], 2, 10)
Fixture == {Genesis} \cup Range(FixtureA) \cup Range(FixtureB) \cup Range(FixtureC)

Leaves(t) == {h \in t : h # Genesis /\ ~\E k \in t : k.parent_hash = h.hash}

\* The backend holds the chain built, or has pruned one of its leaves.
ReorgInit ==
    /\ headers \in Trees
    /\ backend \in {headers} \cup {headers \ {leaf} : leaf \in Leaves(headers)}
    /\ drCalled = FALSE
    /\ drPrev = None
    /\ drBest = None
    /\ drResult = None
    /\ BackupInit
    /\ NoTracker
    /\ NoStatus

\* A call detect_reorgs(backend, prev_best, best) (chain_state.rs:329-333).
Detect(prev_best, best) ==
    /\ ~drCalled
    /\ drCalled' = TRUE
    /\ drPrev' = prev_best
    /\ drBest' = best
    /\ drResult' = DetectReorgs(backend, prev_best, best)
    /\ UNCHANGED <<headers, backend>>
    /\ UNCHANGED <<backupVars, trackerVars, statusVars>>

ReorgNext ==
    \E prev_best \in {None} \cup {Some(h) : h \in headers} :
        \E best \in headers : Detect(prev_best, best)

ReorgSpec == ReorgInit /\ [][ReorgNext]_vars

\* ------------------ chain_state.rs: ChainStateMeasure for ChainStateMetrics

\* An increment that does not look at the variant.
IncrementOwnHopelessBlocksAnyKind(m) == [m EXCEPT !.own_hopeless_blocks = @ + 1]

\* chain_state.rs:76-84.
IncrementOwnHopelessBlocks(m) ==
    IF m.kind = "Prometheus"
    THEN [m EXCEPT !.own_hopeless_blocks = @ + 1]
    ELSE IF m.kind = "Mock" THEN MockCalled(m, "increment_own_hopeless_blocks", 0)
    ELSE m

\* A gauge that is only ever raised.
UpdateBestBlockIfHigher(m, number) ==
    IF m.kind = "Prometheus" /\ number > m.best_block
    THEN [m EXCEPT !.best_block = number]
    ELSE m

\* chain_state.rs:86-90.
UpdateBestBlock(m, number) ==
    IF m.kind = "Prometheus" THEN [m EXCEPT !.best_block = number]
    ELSE IF m.kind = "Mock" THEN MockCalled(m, "update_best_block", number)
    ELSE m

\* A gauge that steps up by one at every finality notification.
UpdateTopFinalizedBlockByOne(m, number) ==
    IF m.kind = "Prometheus"
    THEN [m EXCEPT !.top_finalized_block = @ + 1, !.own_finalized_blocks = @ + 1]
    ELSE m

\* An update of the top-finalized gauge that leaves the counter alone.
UpdateTopFinalizedBlockGaugeOnly(m, number) ==
    IF m.kind = "Prometheus" THEN [m EXCEPT !.top_finalized_block = number]
    ELSE IF m.kind = "Mock" THEN MockCalled(m, "update_top_finalized_block", number)
    ELSE m

\* chain_state.rs:92-102.
UpdateTopFinalizedBlock(m, number) ==
    IF m.kind = "Prometheus"
    THEN [m EXCEPT !.top_finalized_block = number, !.own_finalized_blocks = @ + 1]
    ELSE IF m.kind = "Mock" THEN MockCalled(m, "update_top_finalized_block", number)
    ELSE m

\* chain_state.rs:104-108.
ReportReorg(m, length) ==
    IF m.kind = "Prometheus" THEN [m EXCEPT !.reorgs = Append(@, length)]
    ELSE IF m.kind = "Mock" THEN MockCalled(m, "report_reorg", length)
    ELSE m

\* --------------------------------- chain_state.rs: run_chain_state_metrics

\* The notifications not yet taken, after the oldest one of a stream is taken.
RECURSIVE TakeFirst(_, _)
TakeFirst(order, stream) ==
    IF order = <<>> THEN <<>>
    ELSE IF Head(order) = stream THEN Tail(order)
    ELSE <<Head(order)>> \o TakeFirst(Tail(order), stream)

\* The node: ChainStateMetricsRunner::new with or without a registry, the two
\* notification streams subscribed, the backend holding genesis, finalized.
TrackerInit ==
    /\ headers = {Genesis}
    /\ backend = {Genesis}
    /\ finalized = Genesis
    /\ importQ = <<>>
    /\ finalQ = <<>>
    /\ importOpen = TRUE
    /\ finalOpen = TRUE
    /\ tpc = "running"
    /\ previous_best = None
    /\ own_imported_by_level = NoLevels
    /\ metrics \in {NewMetrics("Prometheus"), NewMetrics("Noop")}
    /\ arrival = <<>>
    /\ notified = NoneNotified
    /\ drCalled = FALSE
    /\ drPrev = None
    /\ drBest = None
    /\ drResult = None
    /\ BackupInit
    /\ NoStatus

\* The node imports a block above one the backend holds, on the finalized chain or
\* above it, and notifies the import stream; the origin and whether the block is
\* the new best are the node's choice.
ImportBlock(parent, origin, is_new_best) ==
    /\ tpc = "running"
    /\ importOpen
    /\ parent \in backend
    /\ finalized \in ChainTo(backend, parent)
    /\ Cardinality(headers) <= MaxBlocks
    /\ arrival' = Append(arrival, "import")
    /\ LET header == Header(Cardinality(headers) + 1, parent.hash, parent.number + 1)
       IN  /\ headers' = headers \cup {header}
           /\ backend' = backend \cup {header}
           /\ importQ' = Append(importQ, [header |-> header, origin |-> origin,
                                          is_new_best |-> is_new_best])
           /\ notified' = [notified EXCEPT !.imports = @ \cup
                               {[header |-> header, origin |-> origin,
                                 is_new_best |-> is_new_best]}]
    /\ UNCHANGED <<finalized, finalQ, importOpen, finalOpen, tpc, previous_best,
                   own_imported_by_level, metrics>>
    /\ UNCHANGED <<backupVars, statusVars, drCalled, drPrev, drBest, drResult>>

\* The node finalizes a block above the last finalized one and notifies the
\* finality stream.
FinalizeBlock(header) ==
    /\ tpc = "running"
    /\ finalOpen
    /\ header \in backend
    /\ header # finalized
    /\ finalized \in ChainTo(backend, header)
    /\ finalized' = header
    /\ finalQ' = Append(finalQ, [header |-> header])
    /\ arrival' = Append(arrival, "finality")
    /\ notified' = [notified EXCEPT !.finality = @ \cup {[header |-> header]}]
    /\ UNCHANGED <<headers, backend, importQ, importOpen, finalOpen, tpc,
                   previous_best, own_imported_by_level, metrics>>
    /\ UNCHANGED <<backupVars, statusVars, drCalled, drPrev, drBest, drResult>>

\* The backend prunes a leaf of a fork that finality has displaced.
PruneBlock(leaf) ==
    /\ UNCHANGED notified
    /\ tpc = "running"
    /\ leaf \in Leaves(backend)
    /\ leaf \notin ChainTo(backend, finalized)
    /\ finalized \notin ChainTo(backend, leaf)
    /\ backend' = backend \ {leaf}
    /\ UNCHANGED arrival
    /\ UNCHANGED <<headers, finalized, importQ, finalQ, importOpen, finalOpen, tpc,
                   previous_best, own_imported_by_level, metrics>>
    /\ UNCHANGED <<backupVars, statusVars, drCalled, drPrev, drBest, drResult>>

\* The import notification sinks are closed (chain_state.rs:369-371).
CloseImport ==
    /\ UNCHANGED notified
    /\ tpc = "running"
    /\ importOpen
    /\ importOpen' = FALSE
    /\ UNCHANGED arrival
    /\ UNCHANGED <<headers, backend, finalized, importQ, finalQ, finalOpen, tpc,
                   previous_best, own_imported_by_level, metrics>>
    /\ UNCHANGED <<backupVars, statusVars, drCalled, drPrev, drBest, drResult>>

\* The finality notification sinks are closed (chain_state.rs:372-374).
CloseFinality ==
    /\ UNCHANGED notified
    /\ tpc = "running"
    /\ finalOpen
    /\ finalOpen' = FALSE
    /\ UNCHANGED arrival
    /\ UNCHANGED <<headers, backend, finalized, importQ, finalQ, importOpen, tpc,
                   previous_best, own_imported_by_level, metrics>>
    /\ UNCHANGED <<backupVars, statusVars, drCalled, drPrev, drBest, drResult>>

\* The filter of chain_state.rs:151-153.
Interesting(notification) == notification.is_new_best \/ notification.origin = "Own"

\* A filter that hands the notification it drops to the tracker as a new best.
FilterDiscardAsBest ==
    /\ tpc = "running"
    /\ importQ # <<>>
    /\ ~Interesting(Head(importQ))
    /\ importQ' = Tail(importQ)
    /\ arrival' = TakeFirst(arrival, "import")
    /\ metrics' = UpdateBestBlock(metrics, Head(importQ).header.number)
    /\ previous_best' = Some(Head(importQ).header)
    /\ UNCHANGED <<headers, backend, finalized, finalQ, importOpen, finalOpen, tpc,
                   own_imported_by_level, notified>>
    /\ UNCHANGED <<backupVars, statusVars, drCalled, drPrev, drBest, drResult>>

\* The filtered stream drops a notification that is not interesting.
FilterDiscard ==
    /\ UNCHANGED notified
    /\ tpc = "running"
    /\ importQ # <<>>
    /\ ~Interesting(Head(importQ))
    /\ importQ' = Tail(importQ)
    /\ arrival' = TakeFirst(arrival, "import")
    /\ UNCHANGED <<headers, backend, finalized, finalQ, importOpen, finalOpen, tpc,
                   previous_best, own_imported_by_level, metrics>>
    /\ UNCHANGED <<backupVars, statusVars, drCalled, drPrev, drBest, drResult>>

\* chain_state.rs:165-170.
PushOwn(levels, number, hash) ==
    IF number \in DOMAIN levels
    THEN [levels EXCEPT ![number] = Append(@, hash)]
    ELSE [n \in DOMAIN levels \cup {number} |->
            IF n = number THEN <<hash>> ELSE levels[n]]

\* An import branch that records every new best among the self-authored blocks.
ImportEventPushingBest ==
    /\ UNCHANGED notified
    /\ tpc = "running"
    /\ importQ # <<>>
    /\ Interesting(Head(importQ))
    /\ arrival' = TakeFirst(arrival, "import")
    /\ LET block == Head(importQ)
           reorg == DetectReorgs(backend, previous_best, block.header)
           best == UpdateBestBlock(metrics, block.header.number)
       IN  /\ importQ' = Tail(importQ)
           /\ own_imported_by_level' =
                  PushOwn(own_imported_by_level, block.header.number, block.header.hash)
           /\ IF block.is_new_best
              THEN /\ metrics' = IF reorg.kind = "Some"
                                 THEN ReportReorg(best, reorg.value)
                                 ELSE best
                   /\ previous_best' = Some(block.header)
              ELSE UNCHANGED <<metrics, previous_best>>
    /\ UNCHANGED <<headers, backend, finalized, finalQ, importOpen, finalOpen, tpc>>
    /\ UNCHANGED <<backupVars, statusVars, drCalled, drPrev, drBest, drResult>>

\* chain_state.rs:160-180: the select! branch of an import notification.
ImportEvent ==
    /\ UNCHANGED notified
    /\ tpc = "running"
    /\ importQ # <<>>
    /\ Interesting(Head(importQ))
    /\ arrival' = TakeFirst(arrival, "import")
    /\ LET block == Head(importQ)
           reorg == DetectReorgs(backend, previous_best, block.header)
           best == UpdateBestBlock(metrics, block.header.number)
       IN  /\ importQ' = Tail(importQ)
           /\ own_imported_by_level' =
                  IF block.origin = "Own"
                  THEN PushOwn(own_imported_by_level, block.header.number,
                               block.header.hash)
                  ELSE own_imported_by_level
           /\ IF block.is_new_best
              THEN /\ metrics' = IF reorg.kind = "Some"
                                 THEN ReportReorg(best, reorg.value)
                                 ELSE best
                   /\ previous_best' = Some(block.header)
              ELSE UNCHANGED <<metrics, previous_best>>
    /\ UNCHANGED <<headers, backend, finalized, finalQ, importOpen, finalOpen, tpc>>
    /\ UNCHANGED <<backupVars, statusVars, drCalled, drPrev, drBest, drResult>>

\* A loop that goes on waiting when the import stream has ended.
ImportEndedIgnored ==
    /\ tpc = "running"
    /\ importQ = <<>>
    /\ ~importOpen
    /\ UNCHANGED vars

\* chain_state.rs:181-184: the import stream has ended.
ImportEnded ==
    /\ UNCHANGED notified
    /\ tpc = "running"
    /\ importQ = <<>>
    /\ ~importOpen
    /\ tpc' = "ended"
    /\ UNCHANGED arrival
    /\ UNCHANGED <<headers, backend, finalized, importQ, finalQ, importOpen, finalOpen,
                   previous_best, own_imported_by_level, metrics>>
    /\ UNCHANGED <<backupVars, statusVars, drCalled, drPrev, drBest, drResult>>

\* A count that takes the finalized hash for a hopeless one as well.
RECURSIVE CountHopelessAll(_, _, _)
CountHopelessAll(m, hashes, hash) ==
    IF hashes = <<>> THEN m
    ELSE CountHopelessAll(IncrementOwnHopelessBlocks(m), Tail(hashes), hash)

\* chain_state.rs:198-200: one increment for each hash that is not the finalized one.
RECURSIVE CountHopeless(_, _, _)
CountHopeless(m, hashes, hash) ==
    IF hashes = <<>> THEN m
    ELSE CountHopeless(IF Head(hashes) # hash THEN IncrementOwnHopelessBlocks(m) ELSE m,
                       Tail(hashes), hash)

\* chain_state.rs:187-202: the select! branch of a finality notification.
FinalityEvent ==
    /\ UNCHANGED notified
    /\ tpc = "running"
    /\ finalQ # <<>>
    /\ arrival' = TakeFirst(arrival, "finality")
    /\ LET block == Head(finalQ)
           number == block.header.number
           top == UpdateTopFinalizedBlock(metrics, number)
       IN  /\ finalQ' = Tail(finalQ)
           /\ IF number \in DOMAIN own_imported_by_level
              THEN /\ own_imported_by_level' =
                          [n \in DOMAIN own_imported_by_level \ {number} |->
                              own_imported_by_level[n]]
                   /\ metrics' = CountHopeless(top, own_imported_by_level[number],
                                               block.header.hash)
              ELSE /\ metrics' = top
                   /\ UNCHANGED own_imported_by_level
    /\ UNCHANGED <<headers, backend, finalized, importQ, importOpen, finalOpen, tpc,
                   previous_best>>
    /\ UNCHANGED <<backupVars, statusVars, drCalled, drPrev, drBest, drResult>>

\* chain_state.rs:203-206: the finality stream has ended.
FinalityEnded ==
    /\ UNCHANGED notified
    /\ tpc = "running"
    /\ finalQ = <<>>
    /\ ~finalOpen
    /\ tpc' = "ended"
    /\ UNCHANGED arrival
    /\ UNCHANGED <<headers, backend, finalized, importQ, finalQ, importOpen, finalOpen,
                   previous_best, own_imported_by_level, metrics>>
    /\ UNCHANGED <<backupVars, statusVars, drCalled, drPrev, drBest, drResult>>

\* The tracker while the finality stream is idle: only the import branch of the
\* select! is taken.
ImportNext ==
    \/ \E parent \in backend : \E origin \in {"Own", "NetworkBroadcast"} :
           \E is_new_best \in BOOLEAN : ImportBlock(parent, origin, is_new_best)
    \/ CloseImport
    \/ FilterDiscard
    \/ ImportEvent
    \/ ImportEnded

ImportSpec == TrackerInit /\ [][ImportNext]_vars

\* The tracker with both streams live, for chains of up to MaxTracked imports.
TrackerNext ==
    \/ /\ Cardinality(headers) <= MaxTracked
       /\ \E parent \in backend : \E origin \in {"Own", "NetworkBroadcast"} :
              \E is_new_best \in BOOLEAN : ImportBlock(parent, origin, is_new_best)
    \/ \E header \in backend : FinalizeBlock(header)
    \/ \E leaf \in backend : PruneBlock(leaf)
    \/ CloseImport
    \/ CloseFinality
    \/ FilterDiscard
    \/ ImportEvent
    \/ ImportEnded
    \/ FinalityEvent
    \/ FinalityEnded

TrackerSpec == TrackerInit /\ [][TrackerNext]_vars

\* select! (chain_state.rs:159) polls both branches whenever the loop comes round and
\* takes one that is ready: a branch that stays ready is taken in the end. The node
\* owes the tracker nothing.
TrackerFairSpec ==
    /\ TrackerSpec
    /\ WF_vars(FilterDiscard)
    /\ WF_vars(ImportEvent)
    /\ WF_vars(ImportEnded)
    /\ WF_vars(FinalityEvent)
    /\ WF_vars(FinalityEnded)

\* --------------------------------------------- chain_state.rs: random_test

\* The import notifications of random_test (chain_state.rs:349-357): A0..A4 above
\* genesis, each the new best, then B0..B2 above A0 and C0..C1 above A2, every block
\* self-authored.
ScenarioImports ==
    [i \in 1..10 |->
        IF i <= 5
        THEN [header |-> FixtureA[i], origin |-> "Own", is_new_best |-> TRUE]
        ELSE IF i <= 8
        THEN [header |-> FixtureB[i - 5], origin |-> "Own", is_new_best |-> FALSE]
        ELSE [header |-> FixtureC[i - 8], origin |-> "Own", is_new_best |-> FALSE]]

\* Its finality notifications (chain_state.rs:366-368): A0..A4 in order.
ScenarioFinality == [i \in 1..5 |-> [header |-> FixtureA[i]]]

\* The tracker is spawned (chain_state.rs:385-392) on a mock, or on registered
\* metrics, after the blocks are imported and finalized and every sink is closed.
ScenarioInit ==
    /\ headers = Fixture
    /\ backend = Fixture
    /\ finalized = FixtureA[5]
    /\ importQ = ScenarioImports
    /\ finalQ = ScenarioFinality
    /\ arrival = [i \in 1..15 |-> IF i <= 10 THEN "import" ELSE "finality"]
    /\ notified = [imports |-> Range(ScenarioImports),
                   finality |-> Range(ScenarioFinality)]
    /\ importOpen = FALSE
    /\ finalOpen = FALSE
    /\ tpc = "running"
    /\ previous_best = None
    /\ own_imported_by_level = NoLevels
    /\ metrics \in {NewMetrics("Mock"), NewMetrics("Prometheus")}
    /\ drCalled = FALSE
    /\ drPrev = None
    /\ drBest = None
    /\ drResult = None
    /\ BackupInit
    /\ NoStatus

\* Every notification of the scenario passes the filter: the loop alone runs.
ScenarioNext ==
    \/ ImportEvent
    \/ ImportEnded
    \/ FinalityEvent
    \/ FinalityEnded

ScenarioSpec == ScenarioInit /\ [][ScenarioNext]_vars

\* ------------------------------------------- chain_status.rs: the substrate client

\* The blocks the backend may come to hold: block 1 is the genesis block, and the
\* blocks 2h and 2h+1 are built on block h.
Hashes == 1..MaxHash
ParentHash(hash) == hash \div 2

RECURSIVE NumberOfHash(_)
NumberOfHash(hash) == IF hash <= 1 THEN 0 ELSE 1 + NumberOfHash(ParentHash(hash))

Numbers == 0..NumberOfHash(MaxHash)

BlockOf(hash) == Header(hash, ParentHash(hash), NumberOfHash(hash))

BlockId(hash, number) == [hash |-> hash, number |-> number]
\* The identifiers the queries are asked about: the hashes of the blocks and the
\* parent hash of the genesis block, which is the hash of no block.
GenesisParent == ParentHash(1)
BlockIds == {BlockId(hash, number) : hash \in Hashes \cup {GenesisParent}, number \in Numbers}

\* The justifications the backend stores for a block: an engine id and the encoded
\* justification.
ALEPH_ENGINE_ID == "FRNK"
StoredJustifications(hash) ==
    {[engine_id |-> ALEPH_ENGINE_ID, encoded |-> "justification", hash |-> hash],
     [engine_id |-> ALEPH_ENGINE_ID, encoded |-> "garbage", hash |-> hash],
     [engine_id |-> "BABE", encoded |-> "justification", hash |-> hash]}

\* A backend call that fails with a ClientError: the call, and for a header lookup
\* the hash it is made for.
NoFault == [at |-> "none", hash |-> 0]
FaultAt(at, hash) == [at |-> at, hash |-> hash]

\* Error<B> (chain_status.rs:24-29) and From<ClientError> (chain_status.rs:57-61).
MissingHash(hash) == [kind |-> "Err", error |-> "MissingHash", hash |-> hash]
MissingJustification(hash) ==
    [kind |-> "Err", error |-> "MissingJustification", hash |-> hash]
Client == [kind |-> "Err", error |-> "Client", hash |-> 0]
MismatchedId == [kind |-> "Err", error |-> "MismatchedId", hash |-> 0]

\* BlockStatus and Justification, as status_of and top_finalized build them.
Unknown == [status |-> "Unknown"]
Present(header) == [status |-> "Present", header |-> header]
Justification(header, raw_justification) ==
    [header |-> header, raw_justification |-> raw_justification]
Justified(justification) == [status |-> "Justified", justification |-> justification]

\* client.hash(number): the block of the best chain at that number.
RECURSIVE AncestorAt(_, _)
AncestorAt(hash, number) ==
    IF NumberOfHash(hash) < number THEN None
    ELSE IF NumberOfHash(hash) = number THEN Some(hash)
    ELSE AncestorAt(ParentHash(hash), number)

ClientHash(c, number, fault) ==
    IF fault.at = "hash" THEN Client
    ELSE OkWith(AncestorAt(c.info.best_hash, number))

\* client.header(hash)
ClientHeader(c, hash, fault) ==
    IF fault.at = "header" /\ fault.hash = hash THEN Client
    ELSE IF hash \in c.headers THEN OkWith(Some(BlockOf(hash)))
    ELSE OkWith(None)

\* client.justifications(hash)
ClientJustifications(c, hash, fault) ==
    IF fault.at = "justifications" THEN Client
    ELSE OkWith(c.justifications[hash])

\* client.children(hash): the child hashes the backend has indexed.
ClientChildren(c, hash, fault) ==
    IF fault.at = "children" THEN Client
    ELSE OkWith(SelectSeq(<<2 * hash, 2 * hash + 1>>, LAMBDA h : h \in c.children))

\* Justifications::into_justification(engine_id)
IntoJustification(stored, engine_id) ==
    IF stored.engine_id = engine_id THEN Some(stored) ELSE None

\* backwards_compatible_decode
BackwardsCompatibleDecode(raw) ==
    IF raw.encoded = "garbage" THEN Err
    ELSE OkWith([signed |-> raw.hash])

\* ------------------------------------- chain_status.rs: SubstrateChainStatus

HashForNumber(c, number, fault) == ClientHash(c, number, fault)

HeaderForHash(c, hash, fault) == ClientHeader(c, hash, fault)

\* fn header (chain_status.rs:93-105)
HeaderOf(c, id, fault) ==
    LET maybe_header == HeaderForHash(c, id.hash, fault)
    IN  IF maybe_header.kind = "Err" THEN Client
        ELSE IF /\ maybe_header.value.kind = "Some"
                /\ maybe_header.value.value.number # id.number
             THEN MismatchedId
        ELSE OkWith(maybe_header.value)

\* The justification the client holds for the block decodes, or is dropped with a
\* warning.
DecodeOrNone(justification) ==
    LET decoded == BackwardsCompatibleDecode(justification)
    IN  IF decoded.kind = "Ok" THEN OkWith(Some(decoded.value)) ELSE OkWith(None)

\* fn justification (chain_status.rs:107-128)
JustificationOf(c, hash, fault) ==
    LET stored == ClientJustifications(c, hash, fault)
    IN  IF stored.kind = "Err" THEN Client
        ELSE LET justification ==
                     IF stored.value.kind = "Some"
                     THEN IntoJustification(stored.value.value, ALEPH_ENGINE_ID)
                     ELSE None
             IN  IF justification.kind = "None" THEN OkWith(None)
                 ELSE DecodeOrNone(justification.value)

BestHash(c) == c.info.best_hash
FinalizedHash(c) == c.info.finalized_hash

\* status_of without the check of the number of the identifier.
StatusOfAnyNumber(c, id, fault) ==
    LET header == HeaderForHash(c, id.hash, fault)
    IN  IF header.kind = "Err" THEN header
        ELSE IF header.value.kind = "None" THEN OkWith(Unknown)
        ELSE LET raw_justification == JustificationOf(c, id.hash, fault)
             IN  IF raw_justification.kind = "Err" THEN raw_justification
                 ELSE IF raw_justification.value.kind = "Some"
                 THEN OkWith(Justified(Justification(header.value.value,
                                                     raw_justification.value.value)))
                 ELSE OkWith(Present(header.value.value))

\* status_of reporting a block whose stored justification does not decode as
\* unknown.
StatusOfUnknownIfUndecodable(c, id, fault) ==
    LET header == HeaderOf(c, id, fault)
    IN  IF header.kind = "Err" THEN header
        ELSE IF header.value.kind = "None" THEN OkWith(Unknown)
        ELSE LET raw_justification == JustificationOf(c, id.hash, fault)
             IN  IF raw_justification.kind = "Err" THEN raw_justification
                 ELSE IF raw_justification.value.kind = "Some"
                 THEN OkWith(Justified(Justification(header.value.value,
                                                     raw_justification.value.value)))
                 ELSE IF c.justifications[id.hash].kind = "Some"
                 THEN OkWith(Unknown)
                 ELSE OkWith(Present(header.value.value))

\* fn status_of (chain_status.rs:161-178)
StatusOf(c, id, fault) ==
    LET header == HeaderOf(c, id, fault)
    IN  IF header.kind = "Err" THEN header
        ELSE IF header.value.kind = "None" THEN OkWith(Unknown)
        ELSE LET raw_justification == JustificationOf(c, id.hash, fault)
             IN  IF raw_justification.kind = "Err" THEN raw_justification
                 ELSE IF raw_justification.value.kind = "Some"
                 THEN OkWith(Justified(Justification(header.value.value,
                                                     raw_justification.value.value)))
                 ELSE OkWith(Present(header.value.value))

\* finalized_at answering with the status of the best block.
FinalizedAtOfBest(c, number, fault) ==
    LET hash == HashForNumber(c, number, fault)
    IN  IF hash.kind = "Err" THEN hash
        ELSE IF hash.value.kind = "None" THEN OkWith(None)
        ELSE LET status == StatusOf(c, BlockId(BestHash(c), NumberOfHash(BestHash(c))),
                                    fault)
             IN  IF status.kind = "Err" THEN status
                 ELSE IF status.value.status = "Justified"
                 THEN OkWith(Some(status.value.justification))
                 ELSE OkWith(None)

\* fn finalized_at (chain_status.rs:147-159)
FinalizedAt(c, number, fault) ==
    LET hash == HashForNumber(c, number, fault)
    IN  IF hash.kind = "Err" THEN hash
        ELSE IF hash.value.kind = "None" THEN OkWith(None)
        ELSE LET status == StatusOf(c, BlockId(hash.value.value, number), fault)
             IN  IF status.kind = "Err" THEN status
                 ELSE IF status.value.status = "Justified"
                 THEN OkWith(Some(status.value.justification))
                 ELSE OkWith(None)

\* best_block falling back to the genesis header.
BestBlockOrDefault(c, fault) ==
    LET best_hash == BestHash(c)
        header == HeaderForHash(c, best_hash, fault)
    IN  IF header.kind = "Err" THEN Client
        ELSE IF header.value.kind = "None" THEN OkWith(BlockOf(1))
        ELSE OkWith(header.value.value)

\* fn best_block (chain_status.rs:180-185)
BestBlock(c, fault) ==
    LET best_hash == BestHash(c)
        header == HeaderForHash(c, best_hash, fault)
    IN  IF header.kind = "Err" THEN Client
        ELSE IF header.value.kind = "None" THEN MissingHash(best_hash)
        ELSE OkWith(header.value.value)

\* top_finalized looking for the justification before the header.
TopFinalizedJustificationFirst(c, fault) ==
    LET finalized_hash == FinalizedHash(c)
        raw_justification == JustificationOf(c, finalized_hash, fault)
    IN  IF raw_justification.kind = "Err" THEN raw_justification
        ELSE IF raw_justification.value.kind = "None"
        THEN MissingJustification(finalized_hash)
        ELSE LET header == HeaderForHash(c, finalized_hash, fault)
             IN  IF header.kind = "Err" THEN Client
                 ELSE IF header.value.kind = "None" THEN MissingHash(finalized_hash)
                 ELSE OkWith(Justification(header.value.value,
                                           raw_justification.value.value))

\* fn top_finalized (chain_status.rs:187-201)
TopFinalized(c, fault) ==
    LET finalized_hash == FinalizedHash(c)
        header == HeaderForHash(c, finalized_hash, fault)
    IN  IF header.kind = "Err" THEN Client
        ELSE IF header.value.kind = "None" THEN MissingHash(finalized_hash)
        ELSE LET raw_justification == JustificationOf(c, finalized_hash, fault)
             IN  IF raw_justification.kind = "Err" THEN raw_justification
                 ELSE IF raw_justification.value.kind = "None"
                 THEN MissingJustification(finalized_hash)
                 ELSE OkWith(Justification(header.value.value,
                                           raw_justification.value.value))

\* The headers that resolved, in the order of the lookups (Iterator::flatten).
RECURSIVE Flatten(_)
Flatten(options) ==
    IF options = <<>> THEN <<>>
    ELSE IF Head(options).value.kind = "Some"
    THEN <<Head(options).value.value>> \o Flatten(Tail(options))
    ELSE Flatten(Tail(options))

\* children failing on a child hash that does not resolve.
ChildrenAllOrMissing(c, id, fault) ==
    LET header == HeaderOf(c, id, fault)
    IN  IF header.kind = "Err" THEN header
        ELSE LET hashes == ClientChildren(c, id.hash, fault)
             IN  IF hashes.kind = "Err" THEN hashes
                 ELSE LET looked_up ==
                              [i \in 1..Len(hashes.value) |->
                                  HeaderForHash(c, hashes.value[i], fault)]
                      IN  IF \E i \in 1..Len(looked_up) : looked_up[i].kind = "Err"
                          THEN Client
                          ELSE IF \E i \in 1..Len(looked_up) :
                                      looked_up[i].value.kind = "None"
                          THEN MissingHash(id.hash)
                          ELSE OkWith(Flatten(looked_up))

\* children rejecting an identifier whose hash has no header.
ChildrenOfKnown(c, id, fault) ==
    LET header == HeaderOf(c, id, fault)
    IN  IF header.kind = "Err" THEN header
        ELSE IF header.value.kind = "None" THEN MissingHash(id.hash)
        ELSE LET hashes == ClientChildren(c, id.hash, fault)
             IN  IF hashes.kind = "Err" THEN hashes
                 ELSE LET looked_up ==
                              [i \in 1..Len(hashes.value) |->
                                  HeaderForHash(c, hashes.value[i], fault)]
                      IN  IF \E i \in 1..Len(looked_up) : looked_up[i].kind = "Err"
                          THEN Client
                          ELSE OkWith(Flatten(looked_up))

\* fn children (chain_status.rs:203-219)
Children(c, id, fault) ==
    LET header == HeaderOf(c, id, fault)
    IN  IF header.kind = "Err" THEN header
        ELSE LET hashes == ClientChildren(c, id.hash, fault)
             IN  IF hashes.kind = "Err" THEN hashes
                 ELSE LET looked_up ==
                              [i \in 1..Len(hashes.value) |->
                                  HeaderForHash(c, hashes.value[i], fault)]
                      IN  IF \E i \in 1..Len(looked_up) : looked_up[i].kind = "Err"
                          THEN Client
                          ELSE OkWith(Flatten(looked_up))

\* --------------------------------------------- the chain status and its backend

\* A fresh backend holds the genesis block, which is its best and finalized block.
StatusInit ==
    /\ client = [headers |-> {1},
                 children |-> {1},
                 justifications |-> [hash \in Hashes |-> None],
                 info |-> [best_hash |-> 1, finalized_hash |-> 1]]
    /\ call = None
    /\ BackupInit
    /\ NoChain
    /\ NoTracker

\* The backend indexes a block as a child of its parent before the header of the
\* block can be read.
IndexChild(hash) ==
    /\ call = None
    /\ hash \notin client.children
    /\ client' = [client EXCEPT !.children = @ \cup {hash}]
    /\ UNCHANGED call
    /\ UNCHANGED <<backupVars, reorgVars, trackerVars>>

\* The backend imports a block on a block it holds.
ImportHeader(hash) ==
    /\ call = None
    /\ hash \notin client.headers
    /\ ParentHash(hash) \in client.headers
    /\ client' = [client EXCEPT !.headers = @ \cup {hash},
                                !.children = @ \cup {hash}]
    /\ UNCHANGED call
    /\ UNCHANGED <<backupVars, reorgVars, trackerVars>>

\* The backend stores a justification for a block it holds and has none for.
StoreJustification(hash, stored) ==
    /\ call = None
    /\ hash \in client.headers
    /\ client.justifications[hash] = None
    /\ client' = [client EXCEPT !.justifications[hash] = Some(stored)]
    /\ UNCHANGED call
    /\ UNCHANGED <<backupVars, reorgVars, trackerVars>>

\* The backend reports another best block and another finalized block of the best
\* chain; it may hold the header of neither.
SetInfo(best_hash, finalized_hash) ==
    /\ call = None
    /\ client.info # [best_hash |-> best_hash, finalized_hash |-> finalized_hash]
    /\ AncestorAt(best_hash, NumberOfHash(finalized_hash)) = Some(finalized_hash)
    /\ client' = [client EXCEPT !.info =
                      [best_hash |-> best_hash, finalized_hash |-> finalized_hash]]
    /\ UNCHANGED call
    /\ UNCHANGED <<backupVars, reorgVars, trackerVars>>

\* The record of a query: the nth call in a row of op with id, the backend
\* lookup that failed in it, and what it returned.
Called(op, id, fault, result) ==
    [op |-> op, id |-> id, fault |-> fault, result |-> result,
     nth |-> IF call = None THEN 1 ELSE 2]

\* A query is explored as the first one since the caller used the last result,
\* and as the same query made once more.
FirstOrRepeated(op, id) ==
    IF call = None THEN TRUE ELSE call.op = op /\ call.id = id /\ call.nth = 1

\* The caller has used the result of its last query; the backend changes between
\* queries.
Returned ==
    /\ call # None
    /\ call' = None
    /\ UNCHANGED client
    /\ UNCHANGED <<backupVars, reorgVars, trackerVars>>

\* status_of deleting a stored justification that it could not decode.
CallStatusOfDroppingGarbage(id, fault) ==
    /\ FirstOrRepeated("status_of", id)
    /\ call' = Called("status_of", id, fault, StatusOf(client, id, fault))
    /\ client' = IF /\ StatusOf(client, id, fault).kind = "Ok"
                    /\ StatusOf(client, id, fault).value.status = "Present"
                 THEN [client EXCEPT !.justifications[id.hash] = None]
                 ELSE client
    /\ UNCHANGED <<backupVars, reorgVars, trackerVars>>

\* A call status_of(id) (chain_status.rs:161).
CallStatusOf(id, fault) ==
    /\ FirstOrRepeated("status_of", id)
    /\ call' = Called("status_of", id, fault, StatusOf(client, id, fault))
    /\ UNCHANGED client
    /\ UNCHANGED <<backupVars, reorgVars, trackerVars>>

\* A call finalized_at(number) (chain_status.rs:147).
CallFinalizedAt(number, fault) ==
    /\ FirstOrRepeated("finalized_at", BlockId(0, number))
    /\ call' = Called("finalized_at", BlockId(0, number), fault,
                      FinalizedAt(client, number, fault))
    /\ UNCHANGED client
    /\ UNCHANGED <<backupVars, reorgVars, trackerVars>>

\* A call best_block() (chain_status.rs:180).
CallBestBlock(fault) ==
    /\ FirstOrRepeated("best_block", BlockId(0, 0))
    /\ call' = Called("best_block", BlockId(0, 0), fault, BestBlock(client, fault))
    /\ UNCHANGED client
    /\ UNCHANGED <<backupVars, reorgVars, trackerVars>>

\* A call top_finalized() (chain_status.rs:187).
CallTopFinalized(fault) ==
    /\ FirstOrRepeated("top_finalized", BlockId(0, 0))
    /\ call' = Called("top_finalized", BlockId(0, 0), fault,
                      TopFinalized(client, fault))
    /\ UNCHANGED client
    /\ UNCHANGED <<backupVars, reorgVars, trackerVars>>

\* A call children(id) (chain_status.rs:203).
CallChildren(id, fault) ==
    /\ FirstOrRepeated("children", id)
    /\ call' = Called("children", id, fault, Children(client, id, fault))
    /\ UNCHANGED client
    /\ UNCHANGED <<backupVars, reorgVars, trackerVars>>

\* The backend calls a query makes, any one of which may fail.
StatusFaults(id) ==
    {NoFault, FaultAt("header", id.hash), FaultAt("justifications", 0)}
FinalizedAtFaults(number) ==
    {NoFault, FaultAt("hash", 0), FaultAt("justifications", 0)}
        \cup {FaultAt("header", hash) :
                  hash \in {h \in Hashes : AncestorAt(BestHash(client), number) = Some(h)}}
HeaderFaults(hash) == {NoFault, FaultAt("header", hash)}
ChildrenFaults(id) ==
    {NoFault, FaultAt("children", 0)}
        \cup {FaultAt("header", hash) :
                  hash \in {id.hash, 2 * id.hash, 2 * id.hash + 1} \cap Hashes}

StatusNext ==
    \/ \E hash \in Hashes : IndexChild(hash)
    \/ \E hash \in Hashes : ImportHeader(hash)
    \/ \E hash \in Hashes : \E stored \in StoredJustifications(hash) :
           StoreJustification(hash, stored)
    \/ \E best_hash, finalized_hash \in Hashes : SetInfo(best_hash, finalized_hash)
    \/ \E id \in BlockIds : \E fault \in StatusFaults(id) : CallStatusOf(id, fault)
    \/ \E number \in Numbers : \E fault \in FinalizedAtFaults(number) :
           CallFinalizedAt(number, fault)
    \/ \E fault \in HeaderFaults(BestHash(client)) : CallBestBlock(fault)
    \/ \E fault \in HeaderFaults(FinalizedHash(client)) \cup {FaultAt("justifications", 0)} :
           CallTopFinalized(fault)
    \/ \E id \in BlockIds : \E fault \in ChildrenFaults(id) : CallChildren(id, fault)
    \/ Returned

StatusSpec == StatusInit /\ [][StatusNext]_vars

\* ------------------------------------------------- claims: the session backup

IsSorted(seq) == \A i \in 1..Len(seq) : \A j \in i..Len(seq) : seq[i] <= seq[j]
ZeroBased(seq) == seq = [i \in 1..Len(seq) |-> i - 1]
HasOp(kind) == \E i \in 1..Len(ops) : ops[i].op = kind
OpenedFile == pc = "session" /\ saver.kind = "File"
Untampered == tamperCount = 0

\* The shards 0.abfts, 1.abfts, ... of fls, concatenated while they exist.
RECURSIVE ReplayFrom(_, _)
ReplayFrom(fls, i) ==
    IF ShardName(i) \in DOMAIN fls THEN fls[ShardName(i)] \o ReplayFrom(fls, i + 1)
    ELSE <<>>

\* C1: when the open finds indices that, sorted, are not 0,1,...,n-1, it returns
\* BackupIncomplete with the sorted indices it found, reads no shard, creates none
\* and hands out no reader or writer.
C1_IncompleteFailsWithoutReplay ==
    (found.kind = "Some" /\ ~ZeroBased(found.value)) =>
        /\ openResult = BackupIncomplete(found.value)
        /\ IsSorted(found.value)
        /\ ~HasOp("read")
        /\ ~HasOp("create")
        /\ loader = <<>>
        /\ saver = NoSaver

C1_Witness ==
    /\ found = Some(<<0, 2>>)
    /\ openResult = BackupIncomplete(<<0, 2>>)
    /\ pc = "returned"

\* C2: with nothing but runs of the session touching the directory, the reader of
\* a successful open yields exactly the bytes written by the earlier runs, in order.
C2_ReplayIsAllWritten ==
    (OpenedFile /\ Untampered) => loader = prior

\* C3: a successful open writes to a new shard whose index is the number of shards
\* found, and every file that existed before the open keeps its content.
C3_ExistingShardsUntouched ==
    (OpenedFile /\ Untampered) =>
        /\ saver.name = ShardName(Len(found.value))
        /\ saver.name \notin DOMAIN filesAtOpen
        /\ \A n \in DOMAIN filesAtOpen : n \in DOMAIN files /\ files[n] = filesAtOpen[n]

\* C4: a filesystem error in any call of the open, a failed directory entry
\* included, makes the open return IOError.
C4_FsErrorIsIOError ==
    fsErr => openResult.kind = "IOError"

\* C5: run_session is started only after a successful open; after BackupIncomplete
\* or IOError the task has returned and never started it.
C5_SessionOnlyAfterOpenOk ==
    /\ (sessionStarted /\ backupPath) => openResult.kind = "Ok"
    /\ openResult.kind \in {"BackupIncomplete", "IOError"} =>
           /\ ~sessionStarted
           /\ pc \in {"returned", "down"}
           /\ saver = NoSaver

C5_Witness ==
    /\ openResult.kind = "IOError"
    /\ pc = "returned"
    /\ ~sessionStarted

\* C6: after runs were cancelled or crashed, the next successful open finds every
\* shard as the earlier runs left it, none deleted or truncated, and replays all of
\* them in index order, the last run's partial shard included.
C6_CrashedRunIsReplayed ==
    (OpenedFile /\ Untampered) =>
        /\ \A n \in DOMAIN filesAtOpen :
               n \in DOMAIN files /\ Len(files[n]) >= Len(filesAtOpen[n])
        /\ loader = ReplayFrom(filesAtOpen, 0)

\* C7: without a backup path the writer is a sink, the reader is empty, and the run
\* makes no filesystem call: no file appears, disappears or changes, whatever is
\* written.
C7_NoBackupTouchesNothing ==
    (pc \in {"session", "stopped"} /\ ~backupPath) =>
        /\ saver = Sink
        /\ loader = <<>>
        /\ ops = <<>>
        /\ openResult = NotCalled
        /\ files = filesAtOpen
        /\ written = prior

C7_Witness ==
    /\ pc = "session"
    /\ ~backupPath
    /\ saver = Sink
    /\ discarded > 0
    /\ DOMAIN files # {}

\* ------------------------------------------------- claims: reorg detection

IsAncestor(t, a, b) == a # b /\ a \in ChainTo(t, b)

\* The common ancestor of a and b with the greatest number.
LcaOf(t, a, b) ==
    CHOOSE c \in ChainTo(t, a) \cap ChainTo(t, b) :
        \A d \in ChainTo(t, a) \cap ChainTo(t, b) : d.number <= c.number

DetectedKnownPair ==
    /\ drCalled
    /\ drPrev.kind = "Some"
    /\ drPrev.value \in backend
    /\ drBest \in backend

\* C8 as stated: for header pairs of the chain, detect_reorgs(Some(prev), new) is
\* None if and only if new equals prev or new's parent is prev.
C8_NoneIffSameOrChild ==
    DetectedKnownPair =>
        (drResult = None <=>
            (drBest = drPrev.value \/ drBest.parent_hash = drPrev.value.hash))

\* C8 as amended: for header pairs of the chain, detect_reorgs(Some(prev), new) is
\* None if and only if new equals prev or prev is an ancestor of new (its parent or
\* any earlier block of new's chain).
C8_NoneIffSameOrAncestor ==
    DetectedKnownPair =>
        (drResult = None <=>
            (drBest = drPrev.value \/ IsAncestor(headers, drPrev.value, drBest)))

C8_Witness ==
    /\ DetectedKnownPair
    /\ IsAncestor(headers, drPrev.value, drBest)
    /\ drBest.parent_hash # drPrev.value.hash
    /\ drResult = None

\* A step of the tracker that records a reorg-depth sample.
RecordsSample == metrics'.reorgs # metrics.reorgs

\* C9: whenever the tracker records a reorg-depth sample for (previous_best,
\* new_best), it records exactly one sample, the sample equals previous_best.number
\* minus the number of the lowest common ancestor of the two blocks, and it is at
\* least 1.
C9_SampleIsDepth ==
    [][RecordsSample =>
        /\ previous_best.kind = "Some"
        /\ previous_best'.kind = "Some"
        /\ LET prev == previous_best.value
               new_best == previous_best'.value
               depth == prev.number - LcaOf(headers, prev, new_best).number
           IN  /\ metrics'.reorgs = Append(metrics.reorgs, depth)
               /\ depth >= 1]_vars

\* A sample of depth 2 has been recorded: the best block moved to a fork that
\* leaves the chain two blocks below the previous best.
C9_Witness ==
    /\ metrics.kind = "Prometheus"
    /\ previous_best.kind = "Some"
    /\ \E i \in 1..Len(metrics.reorgs) : metrics.reorgs[i] = 2

\* The cases of test_reorg_detection (chain_state.rs:320-327).
FixtureCases ==
    {<<FixtureA[2], FixtureA[3], None>>,
     <<FixtureA[2], FixtureA[5], None>>,
     <<FixtureA[2], FixtureA[2], None>>,
     <<FixtureA[3], FixtureB[1], Some(2)>>,
     <<FixtureB[1], FixtureA[3], Some(1)>>,
     <<FixtureC[2], FixtureB[3], Some(4)>>}

\* C10: on the chain G-A0-A1-A2-A3-A4 with B0-B1-B2 above A0 and C0-C1 above A2,
\* detect_reorgs gives (A1,A2) = None, (A1,A4) = None, (A1,A1) = None,
\* (A2,B0) = Some(2), (B0,A2) = Some(1) and (C1,B2) = Some(4).
C10_FixtureCases ==
    (drCalled /\ headers = Fixture /\ backend = Fixture) =>
        \A c \in FixtureCases :
            (drPrev = Some(c[1]) /\ drBest = c[2]) => drResult = c[3]

C10_Witness ==
    /\ drCalled
    /\ headers = Fixture
    /\ backend = Fixture
    /\ drPrev = Some(FixtureC[2])
    /\ drBest = FixtureB[3]
    /\ drResult = Some(4)

\* ------------------------------------------------- claims: the metrics tracker

\* A step that takes a finality notification, and the notification it takes.
TakesFinality == Len(finalQ') < Len(finalQ)
TakenFinality == Head(finalQ).header

\* The self-authored hashes recorded at a height.
RecordedAt(levels, number) ==
    IF number \in DOMAIN levels THEN Range(levels[number]) ELSE {}

\* C11: a finality event for a block at height h with hash f removes the
\* pending-own-blocks entry for h, leaves the other entries as they are, and adds to
\* the own-hopeless counter the number of distinct self-authored hashes recorded at h
\* that differ from f, so that f itself is never counted.
C11_FinalityPurgesAndCounts ==
    [][TakesFinality =>
        LET h == TakenFinality.number
            f == TakenFinality.hash
        IN  /\ DOMAIN own_imported_by_level' = DOMAIN own_imported_by_level \ {h}
            /\ \A n \in DOMAIN own_imported_by_level' :
                   own_imported_by_level'[n] = own_imported_by_level[n]
            /\ metrics.kind = "Prometheus" =>
                   metrics'.own_hopeless_blocks = metrics.own_hopeless_blocks
                       + Cardinality(RecordedAt(own_imported_by_level, h) \ {f})]_vars

\* Two self-authored blocks at one height, one of them finalized: the other one and
\* only the other one has been counted.
C11_Witness ==
    /\ metrics.kind = "Prometheus"
    /\ metrics.own_hopeless_blocks = 1
    /\ metrics.own_finalized_blocks = 1
    /\ own_imported_by_level = NoLevels
    /\ importQ = <<>>
    /\ finalQ = <<>>
    /\ Cardinality({b \in headers : b.number = finalized.number}) = 2

\* The calls of one method with one argument that the mock has received.
CallsOf(method, arg) ==
    Cardinality({i \in 1..Len(metrics.calls) : metrics.calls[i] = Call(method, arg)})

\* C12: when the tracker has run on the scenario of random_test and has ended, it
\* has made exactly 5 own-hopeless-block increments, exactly one best-block update
\* for each of the heights 1..5 of A0..A4 and exactly one top-finalized update for
\* each of them.
C12_ScenarioCounts ==
    (tpc = "ended" /\ metrics.kind = "Mock") =>
        /\ CallsOf("increment_own_hopeless_blocks", 0) = 5
        /\ \A i \in 1..5 : CallsOf("update_best_block", FixtureA[i].number) = 1
        /\ \A i \in 1..5 : CallsOf("update_top_finalized_block", FixtureA[i].number) = 1

\* C13: every height of the pending-own-blocks map holds at least one self-authored
\* hash and is above the height of the last finality event processed: no entry for a
\* finalized height remains.
C13_PendingOnlyUnfinalized ==
    metrics.kind = "Prometheus" =>
        \A n \in DOMAIN own_imported_by_level :
            /\ own_imported_by_level[n] # <<>>
            /\ n > metrics.top_finalized_block

\* Every notification sent has been taken by the tracker.
AllTaken == importQ = <<>> /\ finalQ = <<>>

\* The self-authored blocks notified whose height has a finality notification for
\* another hash.
HopelessOwn ==
    {n \in notified.imports :
        /\ n.origin = "Own"
        /\ \E f \in notified.finality :
               f.header.number = n.header.number /\ f.header.hash # n.header.hash}

\* C14: whichever of the two notifications the tracker takes first, a self-authored
\* block at height h whose hash differs from the hash finalized at h is counted as
\* hopeless exactly once: when every notification has been taken, the own-hopeless
\* counter is the number of such blocks.
C14_HopelessCountedInEitherOrder ==
    (AllTaken /\ metrics.kind = "Prometheus") =>
        metrics.own_hopeless_blocks = Cardinality(HopelessOwn)

\* A step that takes an import notification, passed on or discarded by the filter.
TakesImport == Len(importQ') < Len(importQ)

\* C15: the tracker takes the notifications in the order they were sent: each
\* stream's in that stream's order, and of two notifications of different streams
\* the one sent first.
C15_TakenInArrivalOrder ==
    [][/\ TakesImport => (importQ' = Tail(importQ) /\ Head(arrival) = "import")
       /\ TakesFinality => (finalQ' = Tail(finalQ) /\ Head(arrival) = "finality")]_vars

\* C16: once either notification stream is closed the loop eventually ends, and once
\* it has ended no metric is updated any more, whatever the other stream still holds.
C16_EndsWhenAStreamEnds ==
    /\ (~importOpen \/ ~finalOpen) ~> (tpc = "ended")
    /\ [][tpc = "ended" => (tpc' = "ended" /\ metrics' = metrics)]_vars

\* The loop has ended on the end of the import stream while finality notifications
\* are left unread.
C16_Witness ==
    /\ tpc = "ended"
    /\ ~importOpen
    /\ importQ = <<>>
    /\ finalOpen
    /\ finalQ # <<>>

\* C17: a step that takes an import notification marked new-best sets the best-block
\* gauge to the block's number and previous_best to the block's header, with or
\* without a reorg sample; no other step changes previous_best, which is therefore
\* the header of the last new-best import taken, or unset.
C17_BestFollowsNewBest ==
    [][IF TakesImport /\ Head(importQ).is_new_best
       THEN /\ previous_best' = Some(Head(importQ).header)
            /\ metrics.kind = "Prometheus" =>
                   metrics'.best_block = Head(importQ).header.number
       ELSE previous_best' = previous_best]_vars

\* The best block has moved to a lower block of another fork: a sample was recorded
\* and the gauge went down to the new best's number.
C17_Witness ==
    /\ metrics.kind = "Prometheus"
    /\ importQ = <<>>
    /\ previous_best.kind = "Some"
    /\ metrics.best_block = previous_best.value.number
    /\ metrics.reorgs # <<>>
    /\ \E n \in notified.imports :
           n.is_new_best /\ n.header.number > metrics.best_block

\* C18: a step that takes a finality notification sets the top-finalized gauge to
\* the number of the notified block, whatever the gauge held; the node notifying
\* non-decreasing numbers, the gauge never goes down.
C18_TopFinalizedIsNotified ==
    [][metrics.kind = "Prometheus" =>
        /\ TakesFinality => metrics'.top_finalized_block = TakenFinality.number
        /\ metrics'.top_finalized_block >= metrics.top_finalized_block]_vars

\* Two finality notifications have been taken, the last one for height 2.
C18_Witness ==
    /\ metrics.kind = "Prometheus"
    /\ finalQ = <<>>
    /\ metrics.own_finalized_blocks = 2
    /\ metrics.top_finalized_block = 2

\* C19: a step that takes an import notification neither marked new-best nor
\* self-authored changes neither the pending-own-blocks map nor previous_best nor
\* any metric, and every finality notification taken is processed: none is filtered.
C19_UninterestingIsDiscarded ==
    [][/\ (TakesImport /\ ~Head(importQ).is_new_best /\ Head(importQ).origin # "Own")
            => UNCHANGED <<own_imported_by_level, previous_best, metrics>>
       /\ (TakesFinality /\ metrics.kind = "Prometheus")
            => metrics'.own_finalized_blocks = metrics.own_finalized_blocks + 1]_vars

\* A notification of a block of the network that is not the new best has been
\* dropped, and a finality notification has been processed.
C19_Witness ==
    /\ metrics.kind = "Prometheus"
    /\ importQ = <<>>
    /\ finalQ = <<>>
    /\ metrics.own_finalized_blocks >= 1
    /\ \E n \in notified.imports : ~n.is_new_best /\ n.origin = "NetworkBroadcast"

\* C20: metrics built without a registry stay as they were built, whatever
\* notifications the tracker takes: every operation on them is a no-op.
C20_NoopStaysUntouched ==
    metrics.kind = "Noop" => metrics = NewMetrics("Noop")

\* Without a registry the tracker has taken a new-best import, the import of a
\* self-authored block that is hopeless, and the finality notification of its height.
C20_Witness ==
    /\ metrics.kind = "Noop"
    /\ AllTaken
    /\ previous_best.kind = "Some"
    /\ HopelessOwn # {}
    /\ own_imported_by_level = NoLevels

\* --------------------------------------------------- claims: the chain status

\* What the backend holds for a hash, read off its stores.
Held(hash) == hash \in client.headers
StoredFor(hash) == client.justifications[hash]
HasAlephJustification(hash) ==
    /\ StoredFor(hash).kind = "Some"
    /\ StoredFor(hash).value.engine_id = ALEPH_ENGINE_ID
Decodable(hash) == HasAlephJustification(hash) /\ StoredFor(hash).value.encoded # "garbage"
Undecodable(hash) ==
    HasAlephJustification(hash) /\ StoredFor(hash).value.encoded = "garbage"
JustificationFor(hash) == Justification(BlockOf(hash), [signed |-> hash])

\* The last query is op and the backend answered every lookup it made.
Answered(op) == call # None /\ call.op = op /\ call.fault = NoFault

\* C21: with every backend lookup answered, status_of(id) returns Unknown when the
\* backend holds no header for id.hash, the error MismatchedId when it holds a
\* header whose number is not id.number, Justified(header, justification) when a
\* justification is stored for the hash and decodes, and Present(header) in every
\* remaining case.
C21_StatusOfCases ==
    Answered("status_of") =>
        LET id == call.id
        IN  IF ~Held(id.hash) THEN call.result = OkWith(Unknown)
            ELSE IF NumberOfHash(id.hash) # id.number THEN call.result = MismatchedId
            ELSE IF Decodable(id.hash)
            THEN call.result = OkWith(Justified(JustificationFor(id.hash)))
            ELSE call.result = OkWith(Present(BlockOf(id.hash)))

\* status_of rejected an identifier whose hash the backend holds under another
\* number, although a justification that decodes is stored for the hash.
C21_Witness ==
    /\ Answered("status_of")
    /\ Held(call.id.hash)
    /\ Decodable(call.id.hash)
    /\ call.result = MismatchedId

\* C22: a stored justification that fails to decode counts as no justification and
\* makes no query of the chain status fail: with every backend lookup answered,
\* status_of of the block returns Present(header), and finalized_at of its number
\* and top_finalized return no error when it is the block they look at.
C22_UndecodableNeverFails ==
    /\ ( /\ Answered("status_of")
         /\ Held(call.id.hash)
         /\ NumberOfHash(call.id.hash) = call.id.number
         /\ Undecodable(call.id.hash) )
           => call.result = OkWith(Present(BlockOf(call.id.hash)))
    /\ ( /\ Answered("finalized_at")
         /\ \E hash \in Hashes : /\ AncestorAt(BestHash(client), call.id.number) = Some(hash)
                                 /\ Held(hash)
                                 /\ Undecodable(hash) )
           => call.result.kind = "Ok"
    /\ ( /\ Answered("top_finalized")
         /\ Held(FinalizedHash(client))
         /\ Undecodable(FinalizedHash(client)) )
           => call.result.kind = "Ok"

\* The block of the best chain at a number, as the backend's hash lookup gives it.
CanonicalAt(number) == AncestorAt(BestHash(client), number)

\* C23: with every backend lookup answered, finalized_at(number) returns
\* Some(justification) exactly when the backend has a hash at that number, holds
\* its header and stores a justification for it that decodes; it returns None when
\* there is no block at that number and when the block is held but not justified;
\* the justification returned is the one of that block, whose header has the
\* number asked for.
C23_FinalizedAtCases ==
    Answered("finalized_at") =>
        LET number == call.id.number
            canonical == CanonicalAt(number)
            justified == /\ canonical.kind = "Some"
                         /\ Held(canonical.value)
                         /\ Decodable(canonical.value)
        IN  /\ call.result.kind = "Ok"
            /\ call.result.value.kind = "Some" <=> justified
            /\ ~justified => call.result = OkWith(None)
            /\ justified =>
                   /\ call.result = OkWith(Some(JustificationFor(canonical.value)))
                   /\ call.result.value.value.header.number = number

\* finalized_at returned the justification of a block above the genesis block.
C23_Witness ==
    /\ Answered("finalized_at")
    /\ call.id.number > 0
    /\ call.result.value.kind = "Some"
    /\ call.result.value.value.header.number = call.id.number

\* C24: top_finalized returns Ok only when the backend holds the header of its
\* finalized hash and a justification for it that decodes, and then returns the
\* two; when the header lookup is answered and finds no header it returns
\* MissingHash(finalized_hash), whatever the justification lookup would give; when
\* the header is held and the justification lookup is answered and gives no
\* justification that decodes it returns MissingJustification(finalized_hash).
C24_TopFinalizedCases ==
    (call # None /\ call.op = "top_finalized") =>
        LET finalized_hash == FinalizedHash(client)
        IN  /\ call.result.kind = "Ok" =>
                   /\ Held(finalized_hash)
                   /\ Decodable(finalized_hash)
                   /\ call.result = OkWith(JustificationFor(finalized_hash))
            /\ (call.fault.at # "header" /\ ~Held(finalized_hash)) =>
                   call.result = MissingHash(finalized_hash)
            /\ (call.fault = NoFault /\ Held(finalized_hash)) =>
                   IF Decodable(finalized_hash)
                   THEN call.result = OkWith(JustificationFor(finalized_hash))
                   ELSE call.result = MissingJustification(finalized_hash)

\* top_finalized found no header for the finalized hash and returned MissingHash
\* without looking for the justification, whose lookup would have failed.
C24_Witness ==
    /\ call # None
    /\ call.op = "top_finalized"
    /\ call.fault.at = "justifications"
    /\ ~Held(FinalizedHash(client))
    /\ call.result = MissingHash(FinalizedHash(client))

\* C25: best_block returns a header only when the backend holds the header of its
\* best hash, and then that header; when the header lookup is answered it returns
\* the header if it is held and the error MissingHash(best_hash) if it is not.
C25_BestBlockCases ==
    (call # None /\ call.op = "best_block") =>
        LET best_hash == BestHash(client)
        IN  /\ call.result.kind = "Ok" =>
                   Held(best_hash) /\ call.result = OkWith(BlockOf(best_hash))
            /\ call.fault = NoFault =>
                   IF Held(best_hash) THEN call.result = OkWith(BlockOf(best_hash))
                   ELSE call.result = MissingHash(best_hash)

\* best_block returned MissingHash for a best hash whose header the backend does
\* not hold.
C25_Witness ==
    /\ Answered("best_block")
    /\ ~Held(BestHash(client))
    /\ call.result = MissingHash(BestHash(client))

\* The child hashes the backend has indexed under a hash.
IndexedUnder(hash) == {child \in client.children : ParentHash(child) = hash}

Rank(status) ==
    IF status.status = "Unknown" THEN 0 ELSE IF status.status = "Present" THEN 1 ELSE 2

\* C27: while the backend changes by importing blocks and storing justifications,
\* the status that status_of gives for an identifier never moves backwards in the
\* order Unknown, Present, Justified.
C27_StatusOnlyForward ==
    [][client' # client =>
           \A id \in BlockIds :
               LET before == StatusOf(client, id, NoFault)
                   after == StatusOf(client', id, NoFault)
               IN  (before.kind = "Ok" /\ after.kind = "Ok") =>
                       Rank(before.value) <= Rank(after.value)]_vars

\* status_of found a block above the genesis block justified: the block was
\* unknown before its import and present before its justification was stored.
C27_Witness ==
    /\ Answered("status_of")
    /\ call.id.hash > 1
    /\ call.result.kind = "Ok"
    /\ call.result.value.status = "Justified"

\* C28: no query of the chain status changes the backend, and a query made twice
\* in a row with the same argument, with every backend lookup answered both
\* times, returns the same result both times.
C28_QueriesArePure ==
    [][(call' # None /\ call' # call) =>
           /\ client' = client
           /\ IF call = None THEN TRUE
              ELSE (call.fault = NoFault /\ call'.fault = NoFault) =>
                       call'.result = call.result]_vars

\* status_of was called a second time in a row for a justified block, and the
\* backend still stores what it stored.
C28_Witness ==
    /\ Answered("status_of")
    /\ call.nth = 2
    /\ call.result.kind = "Ok"
    /\ call.result.value.status = "Justified"
    /\ Decodable(call.id.hash)

\* ------------------------------------- claims: the session backup, continued

\* The indices of the shard files on disk, and the step in which an open returns.
IndicesOnDisk(fls) == {ParseEntry(n).value : n \in ParsedNames(DOMAIN fls)}
OpenReturns == openResult = NotCalled /\ openResult' # NotCalled

\* C29: with no file of the session directory changed from outside, the indices
\* of the shard files on disk are always 0, 1, ..., n-1 for some n, an open that
\* succeeds makes n one larger, and an open that fails leaves n as it was.
C29_ShardsGrowByOne ==
    [][Untampered' =>
           /\ IndicesOnDisk(files') = 0..(Cardinality(IndicesOnDisk(files')) - 1)
           /\ (OpenReturns /\ openResult'.kind = "Ok") =>
                  Cardinality(IndicesOnDisk(files')) = Cardinality(IndicesOnDisk(files)) + 1
           /\ (OpenReturns /\ openResult'.kind # "Ok") =>
                  IndicesOnDisk(files') = IndicesOnDisk(files)]_vars

\* C30: when the open fails with BackupIncomplete, the session directory exists
\* and holds the files it held when the task started, each with the bytes it had.
C30_IncompleteLeavesShards ==
    openResult.kind = "BackupIncomplete" =>
        /\ dirExists
        /\ files = filesAtOpen

\* An open failed with BackupIncomplete in a directory that holds a shard with
\* bytes written by an earlier run.
C30_Witness ==
    /\ openResult.kind = "BackupIncomplete"
    /\ pc = "returned"
    /\ \E name \in DOMAIN files : files[name] # <<>>

\* ------------------------------------- claims: the metrics tracker, continued

\* The tracker takes an import notification marked new-best.
TakesNewBest == TakesImport /\ Head(importQ).is_new_best

\* The previous best exists, the backend finds the lowest common ancestor of it and
\* the new best, and it is neither the new best nor an ancestor of it.
LeftBehind(new_best) ==
    IF previous_best.kind = "None" THEN FALSE
    ELSE LET prev == previous_best.value
         IN  /\ LowestCommonAncestor(backend, new_best.hash, prev.hash).kind = "Ok"
             /\ prev # new_best
             /\ ~IsAncestor(headers, prev, new_best)

\* C31: a step that takes a new-best import records one reorg sample exactly when a
\* previous best exists, the lookup of the lowest common ancestor succeeds and the
\* previous best is neither the new best nor an ancestor of it; with no previous
\* best, or with a lookup that fails, it records none; in every case the loop goes
\* on and previous_best becomes the new header.
C31_SampleExactlyOnReorg ==
    [][(TakesNewBest /\ metrics.kind = "Prometheus") =>
           /\ LeftBehind(Head(importQ).header) =>
                  Len(metrics'.reorgs) = Len(metrics.reorgs) + 1
           /\ ~LeftBehind(Head(importQ).header) => metrics'.reorgs = metrics.reorgs
           /\ previous_best' = Some(Head(importQ).header)
           /\ tpc' = "running"]_vars

\* Both new-best imports have been taken and no sample was recorded, although the
\* first of them is on another fork than the second: the backend had pruned it and
\* the lookup failed.
C31_Witness ==
    /\ metrics.kind = "Prometheus"
    /\ tpc = "running"
    /\ importQ = <<>>
    /\ metrics.reorgs = <<>>
    /\ previous_best.kind = "Some"
    /\ \E n \in notified.imports :
           /\ n.is_new_best
           /\ n.header.hash < previous_best.value.hash
           /\ n.header \notin backend
           /\ ~IsAncestor(headers, n.header, previous_best.value)

\* C32: a step that takes a finality notification leaves previous_best, the
\* best-block gauge and the reorg samples as they are; a step that takes a
\* self-authored import that is not new-best changes neither previous_best nor any
\* metric; a step that takes an import that is not self-authored, new-best or
\* not, leaves the pending own blocks as they are; and only a step that takes a
\* finality notification changes the own-hopeless counter.
C32_EventsKeepToTheirPart ==
    [][/\ TakesFinality =>
              /\ previous_best' = previous_best
              /\ metrics'.best_block = metrics.best_block
              /\ metrics'.reorgs = metrics.reorgs
       /\ (TakesImport /\ Head(importQ).origin = "Own" /\ ~Head(importQ).is_new_best) =>
              /\ previous_best' = previous_best
              /\ metrics' = metrics
       /\ (TakesImport /\ Head(importQ).origin # "Own") =>
              own_imported_by_level' = own_imported_by_level
       /\ ~TakesFinality =>
              metrics'.own_hopeless_blocks = metrics.own_hopeless_blocks]_vars

\* The tracker has taken a self-authored import that was not the new best, then a
\* new-best import of another origin above it, then the finality of that block: the
\* self-authored block is still pending and the previous best is the new best.
C32_Witness ==
    /\ metrics.kind = "Prometheus"
    /\ importQ = <<>>
    /\ finalQ = <<>>
    /\ previous_best.kind = "Some"
    /\ [header |-> previous_best.value, origin |-> "NetworkBroadcast",
        is_new_best |-> TRUE] \in notified.imports
    /\ [header |-> previous_best.value] \in notified.finality
    /\ own_imported_by_level # NoLevels
    /\ previous_best.value.number \notin DOMAIN own_imported_by_level
    /\ metrics.own_finalized_blocks = 1
    /\ metrics.own_hopeless_blocks = 0

\* The finality notifications the tracker has taken: those sent and no longer
\* waiting (the node finalizes a block once).
FinalityTaken == Cardinality(notified.finality) - Len(finalQ)

\* C33: with registered metrics, the own-finalized-blocks counter equals the number
\* of finality notifications the tracker has taken, at every point of a run: each
\* one taken adds one, whoever authored the block, and nothing else adds any.
C33_OwnFinalizedCountsFinality ==
    metrics.kind = "Prometheus" => metrics.own_finalized_blocks = FinalityTaken

\* Two finality notifications have been taken and counted, one for a self-authored
\* block and one for a block of another origin.
C33_Witness ==
    /\ metrics.kind = "Prometheus"
    /\ finalQ = <<>>
    /\ metrics.own_finalized_blocks = 2
    /\ \E n \in notified.imports :
           n.origin = "Own" /\ [header |-> n.header] \in notified.finality
    /\ \E n \in notified.imports :
           n.origin # "Own" /\ [header |-> n.header] \in notified.finality

\* ---------------------------------------- claims: the chain status, continued

====
